---- MODULE Spec2Model ----
(***************************************************************************)
(* A model of the Toshiba Estia control library:                           *)
(*   - the state codec and merger of ToshibaAcFcuState (fcu_state.py),     *)
(*   - the energy, state and telemetry paths of ToshibaAcDevice            *)
(*     (device/__init__.py),                                               *)
(*   - the connection lifecycle, the periodic tasks and the teardown of    *)
(*     ToshibaAcDeviceManager (device_manager.py),                         *)
(*   - its command dispatch, token renewal and connection-status fetch.    *)
(* Hex strings are sequences of one-character strings; an Optional value   *)
(* is the empty set (None) or a singleton.                                 *)
(***************************************************************************)
EXTENDS Integers, Sequences, FiniteSets, TLC

VARIABLES
    \* ---- codec: one application of a pure function of fcu_state.py
    kind,       \* which function is applied: "merge", "decode" or "enum"
    prev,       \* merge: the previous full blob, as hex
    part,       \* merge: the partial update, as hex
    mergeOut,   \* merge: the outcome
    blob,       \* decode: the hex string handed to from_hex_state
    fcu,        \* decode: the outcome of from_hex_state(blob)
    reFcu,      \* decode: the outcome of from_hex_state(encode(fcu))
    raw,        \* enum: the raw byte
    enumOut,    \* enum: what the three from_raw tables (and to_raw) give
    \* ---- energy: the energy path of the devices of one manager
    _ac_energy_consumption,  \* device -> the cached reading, or None
    energyEmitted,           \* device -> energy-changed notifications emitted
    energyLog,               \* device -> the updates delivered: reading, emitted?
    \* ---- manager: ToshibaAcDeviceManager, its devices' tasks, its callers
    http_api,    \* "none", "built" (constructed) or "connected"
    amqp_api,    \* "none", "built" (constructed) or "connected"
    sas_token,   \* "none" or a token
    devices,     \* the keys of the registry self.devices
    devConnect,  \* device -> where its connect() coroutine is
    task,        \* "energy", "conn", device -> where that periodic task is
    lockOwner,   \* the caller holding self.lock, or "free"
    lockQ,       \* the callers waiting for self.lock, first come first
    pc,          \* caller -> the await it is suspended at, or "idle"
    ret,         \* caller -> how its last call ended
    failing,     \* caller -> its shutdown runs in connect's except clause
    cleanup,     \* sub-cleanup of the running shutdown -> its outcome
    lastShutdown,\* the last shutdown that ended: how many have ended, its
                 \* caller, what gather returned, and what it raised (the
                 \* exception, then its __context__ chain)
    opsLeft,     \* calls the callers may still start
    listings,    \* fleet listings received since the handles were last cleared
    devSession,  \* how many shutdowns had ended when the registry's devices
                 \* were constructed: whose transports they hold
    cycle,       \* periodic task -> how its last cycle ended
    \* ---- device: the state and telemetry paths of one ToshibaAcDevice
    fcu_state,         \* its ToshibaAcFcuState
    temperatures,      \* self.temperatures: tfi, tho, to, twi, two
    _water_flow_rate,  \* self._water_flow_rate
    stateChanged,      \* state-changed notifications emitted
    call,              \* the last handler call: what it was given, the device
                       \* before it, how it ended
    callsLeft,         \* handler calls still to come
    \* ---- services: command dispatch, token renewal, connection status
    fleet,       \* device -> the ToshibaAcDevice that get_devices constructs
                 \* for it: its state object and its telemetry
    bus,         \* the message-bus transport's thread: where it is, the
                 \* envelope it is dispatching, the handlers scheduled on the
                 \* loop, how many envelopes it delivered, how many named no
                 \* device, how many handlers have ended, what the last
                 \* handler raised, what the last dispatch raised in the thread
    renewal,     \* the renew_sas_token call: where it is, what register_client
                 \* returned to it, the tokens notified, how it ended
    status       \* the fetch_device_status call: the response it was given,
                 \* the connectivity flags set, how it ended

codecVars == <<kind, prev, part, mergeOut, blob, fcu, reFcu, raw, enumOut>>

energyVars == <<_ac_energy_consumption, energyEmitted, energyLog>>

mgrVars == <<http_api, amqp_api, sas_token, devices, devConnect, lockOwner, lockQ,
             pc, ret, failing, cleanup, lastShutdown, opsLeft, listings,
             devSession>>

taskVars == <<task, cycle>>

deviceVars == <<fcu_state, temperatures, _water_flow_rate, stateChanged, call, callsLeft>>

serviceVars == <<fleet, bus, renewal, status>>

vars == <<codecVars, energyVars, mgrVars, taskVars, deviceVars, serviceVars>>

-----------------------------------------------------------------------------
(* Bounds *)

\* The longest blob, in bytes, handed to merge.
MaxBytes == 2

\* The most energy updates delivered to one device.
MaxUpdates == 2

\* The most calls of connect, get_devices and shutdown the callers start.
MaxOps == 4

\* The most calls one caller makes one after the other.
MaxSeqOps == 5

\* The most reloads and pushed commands one device handles.
MaxCalls == 2

\* The most envelopes the transport delivers to a manager at rest.
MaxEnvelopes == 3

\* The most envelopes the transport delivers beside a caller of the
\* manager, and the most calls that caller starts.
MaxPushes == 1

MaxDispatchOps == 2

\* The most token renewals, and the most connection-status fetches.
MaxRenewals == 4

MaxFetches == 2

-----------------------------------------------------------------------------
(* Optional values and small helpers *)

None == {}

Some(v) == {v}

Min(a, b) == IF a < b THEN a ELSE b

RECURSIVE Concat(_)
Concat(ss) == IF ss = <<>> THEN <<>> ELSE Head(ss) \o Concat(Tail(ss))

-----------------------------------------------------------------------------
(* Hex strings: str.lower, bytes.fromhex, bytes.hex *)

HexDigits == <<"0", "1", "2", "3", "4", "5", "6", "7",
               "8", "9", "a", "b", "c", "d", "e", "f">>

UpperDigits == <<"A", "B", "C", "D", "E", "F">>

Lower(c) ==
    IF \E i \in 1..Len(UpperDigits) : UpperDigits[i] = c
    THEN HexDigits[10 + CHOOSE i \in 1..Len(UpperDigits) : UpperDigits[i] = c]
    ELSE c

LowerStr(s) == [i \in 1..Len(s) |-> Lower(s[i])]

IsHexDigit(c) == \E i \in 1..Len(HexDigits) : HexDigits[i] = Lower(c)

DigitVal(c) == (CHOOSE i \in 1..Len(HexDigits) : HexDigits[i] = Lower(c)) - 1

\* bytes.fromhex accepts an even number of hex digits, in either case.
IsHex(s) == Len(s) % 2 = 0 /\ \A i \in 1..Len(s) : IsHexDigit(s[i])

\* bytes.fromhex(s), for a string it accepts.
FromHex(s) ==
    [i \in 1..(Len(s) \div 2) |-> 16 * DigitVal(s[2 * i - 1]) + DigitVal(s[2 * i])]

\* bytes(bs).hex(): two lower-case digits per byte.
ToHex(bs) ==
    Concat([i \in 1..Len(bs) |->
              <<HexDigits[(bs[i] \div 16) + 1], HexDigits[(bs[i] % 16) + 1]>>])

-----------------------------------------------------------------------------
(* ToshibaAcFcuState *)

NONE_VAL == 255

NONE_VAL_SIGNED == -1

\* ENCODING_STRUCT is 36 unsigned bytes.
BlobLen == 36

\* AcTemperature.from_raw: (raw - 32) / 2, kept in half degrees; never None.
AcTemperature_from_raw(r) == Some(r - 32)

\* EstiaTemperature.from_raw: None for 0, else (raw - 48) / 2, in half degrees.
EstiaTemperature_from_raw(r) == IF r = 0 THEN None ELSE Some(r - 48)

\* The lookup tables index a dict: a key that is missing raises KeyError.
EstiaWaterMode_from_raw(r) ==
    CASE r = 5 -> "COOL"
      [] r = 6 -> "HEAT"
      [] r = 0 -> "NONE"
      [] OTHER -> "KeyError"

AcStatus_from_raw(r) ==
    CASE r = 48 -> "ON"
      [] r = 49 -> "OFF"
      [] r = 2 -> "NONE"
      [] r = NONE_VAL -> "NONE"
      [] OTHER -> "KeyError"

AcStatus_to_raw(s) ==
    CASE s = "ON" -> Some(48)
      [] s = "OFF" -> Some(49)
      [] s = "NONE" -> Some(NONE_VAL)
      [] OTHER -> None

AcMode_from_raw(r) ==
    CASE r = 65 -> "AUTO"
      [] r = 66 -> "COOL"
      [] r = 67 -> "HEAT"
      [] r = 0 -> "NONE"
      [] r = NONE_VAL -> "NONE"
      [] OTHER -> "KeyError"

AcMode_to_raw(m) ==
    CASE m = "AUTO" -> Some(65)
      [] m = "COOL" -> Some(66)
      [] m = "HEAT" -> Some(67)
      [] m = "NONE" -> Some(NONE_VAL)
      [] OTHER -> None

\* The keys of the three from_raw tables.
AcStatusKeys == {48, 49, 2, NONE_VAL}

AcModeKeys == {65, 66, 67, 0, NONE_VAL}

EstiaWaterModeKeys == {5, 6, 0}

\* __init__: the fields of a fresh state. _ac_outdoor_temperature is not set
\* by __init__ (only decode assigns it): None stands for the missing attribute.
NewFcuState ==
    [ _ac_status                |-> NONE_VAL,
      _ac_mode                  |-> NONE_VAL,
      _ac_temperature           |-> NONE_VAL_SIGNED,
      _status_string            |-> <<>>,
      _dhw_is_enabled           |-> 0,
      _dhw_target_temperature   |-> 0,
      _new_outdoor_unit_dhw     |-> 0,
      _new_heating_coil_dhw     |-> 0,
      _new_heating_active       |-> 0,
      _water_operation_mode     |-> 0,
      _zone1_target_temperature |-> 0,
      _outdoor_unit_heat        |-> 0,
      _heating_coil_heat        |-> 0,
      _ac_outdoor_temperature   |-> None,
      _water_pump_status        |-> 0 ]

\* encode: the constant empty string.
encode(self) == <<>>

\* decode: stores the string, then unpacks it; bytes.fromhex raises ValueError,
\* struct.unpack raises struct.error unless there are exactly 36 bytes.
\* Gives the state afterwards and the exception raised ("none": returned).
decode(self, hex_state) ==
    LET stored == [self EXCEPT !._status_string = hex_state]
        data   == FromHex(hex_state)
    IN  IF ~IsHex(hex_state)
        THEN [state |-> stored, err |-> "ValueError"]
        ELSE IF Len(data) # BlobLen
        THEN [state |-> stored, err |-> "struct.error"]
        ELSE [state |->
                [stored EXCEPT
                   !._dhw_is_enabled           = data[1],
                   !._dhw_target_temperature   = data[2],
                   !._new_outdoor_unit_dhw     = data[3],
                   !._new_heating_coil_dhw     = data[4],
                   !._new_heating_active       = data[5],
                   !._water_operation_mode     = data[6],
                   !._zone1_target_temperature = data[7],
                   !._outdoor_unit_heat        = data[9],
                   !._heating_coil_heat        = data[10],
                   !._ac_outdoor_temperature   = Some(data[11]),
                   !._water_pump_status        = data[20]],
              err |-> "none"]

from_hex_state(hex_state) == decode(NewFcuState, hex_state)

\* A sentinel test that forgets lower().
MergeKeepsCaseSensitive(input_byte) == input_byte = <<"f", "f">>

\* The sentinel test of merge: input_byte.lower() == 'ff'.
MergeKeeps(input_byte) == LowerStr(input_byte) = <<"f", "f">>

\* [s[i:i+2] for i in range(0, len(s), 2)]
Chunks(s) ==
    [i \in 1..((Len(s) + 1) \div 2) |-> SubSeq(s, 2 * i - 1, Min(2 * i, Len(s)))]

\* merge(input_string, state): input_string is the partial update, state the
\* previous blob. state_bytes[i] raises IndexError past the end of state.
merge(input_string, state) ==
    LET input_bytes == Chunks(input_string)
        state_bytes == Chunks(state)
        n           == Len(input_bytes)
    IN  IF \E i \in 1..n : MergeKeeps(input_bytes[i]) /\ i > Len(state_bytes)
        THEN [err |-> "IndexError", val |-> <<>>]
        ELSE [err |-> "none",
              val |-> Concat([i \in 1..n |->
                                IF MergeKeeps(input_bytes[i])
                                THEN state_bytes[i]
                                ELSE input_bytes[i]])]

\* The read-only properties of the decoded state.
ac_status(self) == AcStatus_from_raw(self._ac_status)

ac_mode(self) == AcMode_from_raw(self._ac_mode)

ac_temperature(self) == AcTemperature_from_raw(self._ac_temperature)

dhw_target_temperature(self) == AcTemperature_from_raw(self._dhw_target_temperature)

zone1_target_temperature(self) ==
    AcTemperature_from_raw(self._zone1_target_temperature)

compressor_status(self) ==
    IF self._new_outdoor_unit_dhw # 0 THEN Some("DHW")
    ELSE IF self._outdoor_unit_heat # 0 THEN Some("HEAT")
    ELSE Some("OFF")

zone1_mode(self) == EstiaWaterMode_from_raw(self._water_operation_mode)

water_pump_is_running(self) == Some(self._water_pump_status)

electric_coil_dhw_is_active(self) == Some(self._new_heating_coil_dhw)

electric_coil_heat_is_active(self) == Some(self._heating_coil_heat)

\* Every read-only property at once.
Fields(self) ==
    [ ac_status                    |-> ac_status(self),
      ac_mode                      |-> ac_mode(self),
      dhw_target_temperature       |-> dhw_target_temperature(self),
      zone1_target_temperature     |-> zone1_target_temperature(self),
      compressor_status            |-> compressor_status(self),
      zone1_mode                   |-> zone1_mode(self),
      water_pump_is_running        |-> water_pump_is_running(self),
      electric_coil_dhw_is_active  |-> electric_coil_dhw_is_active(self),
      electric_coil_heat_is_active |-> electric_coil_heat_is_active(self) ]

-----------------------------------------------------------------------------
(* The fleet, and each part of the state at rest *)

\* The appliances the remote side knows.
Devices == {"a", "b"}

\* The energy path at rest: every device as constructed.
IdleEnergy ==
    /\ _ac_energy_consumption = [d \in Devices |-> None]
    /\ energyEmitted = [d \in Devices |-> 0]
    /\ energyLog = [d \in Devices |-> <<>>]

\* The five readings of self.temperatures, in the order the heartbeat
\* handler assigns them.
Readouts == <<"tfi", "tho", "to", "twi", "two">>

NoCall == [op |-> "none", shape |-> "none", data |-> <<>>, payload |-> <<>>,
           err |-> "none", emitted |-> 0, before |-> NewFcuState]

\* The state and telemetry paths at rest: a device as constructed, before
\* any blob is decoded into it.
IdleDevice ==
    /\ fcu_state = NewFcuState
    /\ temperatures = [r \in {Readouts[i] : i \in 1..Len(Readouts)} |-> None]
    /\ _water_flow_rate = Some(0)
    /\ stateChanged = 0
    /\ call = NoCall
    /\ callsLeft = 0

\* A ToshibaAcDevice as its constructor leaves it, but for the blob decoded
\* into its state object.
NewDevice ==
    [fcu_state |-> NewFcuState,
     temperatures |-> [r \in {Readouts[i] : i \in 1..Len(Readouts)} |-> None],
     _water_flow_rate |-> Some(0)]

\* An envelope's payload: what is under "data" (and whether it is there)
\* for an HCU command, the readings for a heartbeat.
NoEnvelope ==
    [source |-> "nobody", cmd |-> "none",
     payload |-> [shape |-> "none", data |-> <<>>, readings |-> <<>>]]

\* The transport's thread outside any dispatch.
IdleBus ==
    [pc |-> "idle", env |-> NoEnvelope, scheduled |-> <<>>, delivered |-> 0,
     missed |-> 0, applied |-> 0, handler |-> "none", raised |-> "none", left |-> 0]

NoRenewal ==
    [pc |-> "idle", registered |-> "none", notified |-> <<>>, ret |-> "none",
     before |-> "none", left |-> 0]

NoStatus ==
    [pc |-> "idle", response |-> [d \in Devices |-> "absent"], online |-> [d \in Devices |-> None],
     err |-> "none", fetched |-> 0, left |-> 0]

\* The services at rest.
IdleService ==
    /\ fleet = [d \in Devices |-> NewDevice]
    /\ bus = IdleBus
    /\ renewal = NoRenewal
    /\ status = NoStatus

-----------------------------------------------------------------------------
(* The codec specification: inputs drawn at Init, one function applied *)

\* Hex strings of 0..n bytes over an alphabet of digits.
HexStrings(alphabet, n) == UNION {[1..(2 * k) -> alphabet] : k \in 0..n}

PartialDigits == {"0", "f", "F"}

PreviousDigits == {"1", "f"}

\* The bytes patched into a blob that is decoded.
SampleBytes == {0, 5, 48, 49, 65, NONE_VAL}

Fill(b, n) == [i \in 1..n |-> b]

\* Blobs that are all one byte but for one position, and blobs one byte short
\* or long.
SampleBlobs ==
    {ToHex([Fill(b, BlobLen) EXCEPT ![p] = v]) :
        b \in {0, NONE_VAL}, p \in 1..BlobLen, v \in SampleBytes}
    \cup {ToHex(Fill(NONE_VAL, BlobLen - 1)), ToHex(Fill(NONE_VAL, BlobLen + 1))}

Pending == [err |-> "pending", val |-> <<>>]

PendingFcu == [state |-> NewFcuState, err |-> "pending"]

PendingEnum == [done |-> FALSE, status |-> "NONE", mode |-> "NONE", water |-> "NONE"]

\* The concurrent callers of the manager's coroutines.
Callers == {"c1", "c2"}

\* The periodic tasks: the two of the manager, and each device's reload.
ManagerTasks == {"energy", "conn"}

Tasks == ManagerTasks \cup Devices

\* What shutdown gathers, in the order it lists them.
CleanupOrder == <<"conn", "energy", "a", "b", "amqp", "http">>

Cleanups == {CleanupOrder[i] : i \in 1..Len(CleanupOrder)}

Transports == {"amqp", "http"}

NoShutdown == [n |-> 0, by |-> "nobody", results |-> <<>>, raised |-> <<>>]

\* __init__ of the manager: nothing connected, no device, no task.
IdleManager ==
    /\ http_api = "none"
    /\ amqp_api = "none"
    /\ sas_token = "none"
    /\ devices = {}
    /\ devConnect = [d \in Devices |-> "none"]
    /\ lockOwner = "free"
    /\ lockQ = <<>>
    /\ pc = [c \in Callers |-> "idle"]
    /\ ret = [c \in Callers |-> "none"]
    /\ failing = [c \in Callers |-> FALSE]
    /\ cleanup = [x \in Cleanups |-> "absent"]
    /\ lastShutdown = NoShutdown
    /\ opsLeft = 0
    /\ listings = 0
    /\ devSession = 0

IdleTasks ==
    /\ task = [t \in Tasks |-> "none"]
    /\ cycle = [t \in Tasks |-> "none"]

\* The codec at rest, in the specifications that are about something else.
IdleCodec ==
    /\ kind = "none"
    /\ prev = <<>>
    /\ part = <<>>
    /\ mergeOut = Pending
    /\ blob = <<>>
    /\ fcu = PendingFcu
    /\ reFcu = PendingFcu
    /\ raw = 0
    /\ enumOut = PendingEnum

InitCodec ==
    /\ IdleEnergy
    /\ IdleDevice
    /\ IdleService
    /\ IdleManager
    /\ IdleTasks
    /\ kind \in {"merge", "decode", "enum"}
    /\ mergeOut = Pending
    /\ fcu = PendingFcu
    /\ reFcu = PendingFcu
    /\ enumOut = PendingEnum
    /\ IF kind = "merge"
       THEN prev \in HexStrings(PreviousDigits, MaxBytes)
            /\ part \in HexStrings(PartialDigits, MaxBytes)
       ELSE prev = <<>> /\ part = <<>>
    /\ IF kind = "decode" THEN blob \in SampleBlobs ELSE blob = <<>>
    /\ IF kind = "enum" THEN raw \in 0..255 ELSE raw = 0

\* state_update = self.merge(status_diff, old_status_string)
ApplyMerge ==
    /\ kind = "merge"
    /\ mergeOut.err = "pending"
    /\ mergeOut' = merge(part, prev)
    /\ UNCHANGED <<kind, prev, part, blob, fcu, reFcu, raw, enumOut>>
    /\ UNCHANGED <<energyVars, mgrVars, taskVars, deviceVars, serviceVars>>

\* ToshibaAcFcuState.from_hex_state(blob)
ApplyDecode ==
    /\ kind = "decode"
    /\ fcu.err = "pending"
    /\ fcu' = from_hex_state(blob)
    /\ UNCHANGED <<kind, prev, part, mergeOut, blob, reFcu, raw, enumOut>>
    /\ UNCHANGED <<energyVars, mgrVars, taskVars, deviceVars, serviceVars>>

\* ToshibaAcFcuState.from_hex_state(state.encode()) of a decoded state
ApplyEncodeDecode ==
    /\ kind = "decode"
    /\ fcu.err = "none"
    /\ reFcu.err = "pending"
    /\ reFcu' = from_hex_state(encode(fcu.state))
    /\ UNCHANGED <<kind, prev, part, mergeOut, blob, fcu, raw, enumOut>>
    /\ UNCHANGED <<energyVars, mgrVars, taskVars, deviceVars, serviceVars>>

\* AcStatus.from_raw, AcMode.from_raw, EstiaWaterMode.from_raw of one byte
ApplyEnums ==
    /\ kind = "enum"
    /\ ~enumOut.done
    /\ enumOut' = [done   |-> TRUE,
                   status |-> AcStatus_from_raw(raw),
                   mode   |-> AcMode_from_raw(raw),
                   water  |-> EstiaWaterMode_from_raw(raw)]
    /\ UNCHANGED <<kind, prev, part, mergeOut, blob, fcu, reFcu, raw>>
    /\ UNCHANGED <<energyVars, mgrVars, taskVars, deviceVars, serviceVars>>

NextCodec == ApplyMerge \/ ApplyDecode \/ ApplyEncodeDecode \/ ApplyEnums

SpecCodec == InitCodec /\ [][NextCodec]_vars

-----------------------------------------------------------------------------
(* Claims about the codec *)

Bytes(s) == FromHex(s)

\* C1: merging a partial P into a previous blob B of the same length gives a
\* blob of that length whose byte i is P[i] unless P[i] is 0xFF, and B[i] when
\* it is; merging an all-0xFF partial gives B back unchanged.
MergeBytewise ==
    (mergeOut.err # "pending" /\ Len(part) = Len(prev)) =>
        /\ mergeOut.err = "none"
        /\ Len(mergeOut.val) = Len(prev)
        /\ IsHex(mergeOut.val)
        /\ \A i \in 1..Len(Bytes(prev)) :
              Bytes(mergeOut.val)[i] =
                  IF Bytes(part)[i] # NONE_VAL THEN Bytes(part)[i] ELSE Bytes(prev)[i]
        /\ (\A i \in 1..Len(Bytes(part)) : Bytes(part)[i] = NONE_VAL)
              => mergeOut.val = prev

\* C1 witness: an equal-length merge that both kept a byte of B under a
\* sentinel written in upper case and took a byte of P.
MergeBytewiseWitness ==
    /\ mergeOut.err = "none"
    /\ Len(part) = Len(prev)
    /\ Len(part) = 4
    /\ SubSeq(part, 1, 2) = <<"F", "F">>
    /\ Bytes(part)[2] # NONE_VAL
    /\ Bytes(prev)[1] # NONE_VAL
    /\ Bytes(mergeOut.val) = <<Bytes(prev)[1], Bytes(part)[2]>>

\* C2: merge fails, producing no merged blob, whenever the partial and the
\* previous blob differ in length.
MergeRejectsLengthMismatch ==
    (mergeOut.err # "pending" /\ Len(part) # Len(prev)) => mergeOut.err # "none"

IsOnScenario(s) ==
    /\ IsHex(s)
    /\ Len(Bytes(s)) = BlobLen
    /\ \E p \in 1..BlobLen :
          /\ Bytes(s)[p] = 48
          /\ \A q \in (1..BlobLen) \ {p} : Bytes(s)[q] = NONE_VAL

\* C3: a blob of 36 bytes, all 0xFF but the status byte holding the raw value
\* of ON, decodes without error to status ON and every other field none.
OnScenarioDecodes ==
    (fcu.err # "pending" /\ IsOnScenario(blob)) =>
        /\ fcu.err = "none"
        /\ Fields(fcu.state) =
              [ ac_status                    |-> "ON",
                ac_mode                      |-> "NONE",
                dhw_target_temperature       |-> None,
                zone1_target_temperature     |-> None,
                compressor_status            |-> None,
                zone1_mode                   |-> "NONE",
                water_pump_is_running        |-> None,
                electric_coil_dhw_is_active  |-> None,
                electric_coil_heat_is_active |-> None ]

\* C4: in each enum decoder every defined raw byte maps to a variant that maps
\* back to it, every variant survives variant -> raw -> variant, and every
\* other byte, and the sentinel 0xFF, decodes to NONE instead of failing.
EnumTotalBidirectional ==
    enumOut.done =>
        /\ (raw \in AcStatusKeys \ {NONE_VAL}) =>
              AcStatus_to_raw(enumOut.status) = Some(raw)
        /\ (raw \in AcModeKeys \ {NONE_VAL}) =>
              AcMode_to_raw(enumOut.mode) = Some(raw)
        /\ (raw \in EstiaWaterModeKeys) => enumOut.water # "KeyError"
        /\ \A s \in {"ON", "OFF", "NONE"} :
              \A r \in AcStatus_to_raw(s) : AcStatus_from_raw(r) = s
        /\ \A m \in {"AUTO", "COOL", "HEAT", "NONE"} :
              \A r \in AcMode_to_raw(m) : AcMode_from_raw(r) = m
        /\ (raw \notin AcStatusKeys \/ raw = NONE_VAL) => enumOut.status = "NONE"
        /\ (raw \notin AcModeKeys \/ raw = NONE_VAL) => enumOut.mode = "NONE"
        /\ (raw \notin EstiaWaterModeKeys \/ raw = NONE_VAL) => enumOut.water = "NONE"

\* C5: decoding a blob, encoding the decoded state and decoding that again
\* gives the same value of every field.
EncodeInvertsDecode ==
    (fcu.err = "none" /\ reFcu.err # "pending") =>
        /\ reFcu.err = "none"
        /\ Fields(reFcu.state) = Fields(fcu.state)

-----------------------------------------------------------------------------
(* The energy path: ToshibaAcDevice.handle_update_ac_energy_consumption *)

\* ToshibaAcDeviceEnergyConsumption(energy_wh, since)
Readings == [energy_wh : {0, 1}, since : {0, 1}]

\* A comparison that looks at the value and not at the window start.
ReadingDiffersValueOnly(cached, val) ==
    cached = None \/ \E c \in cached : c.energy_wh # val.energy_wh

\* self._ac_energy_consumption != val: the dataclass compares both fields, and
\* None differs from every reading.
ReadingDiffers(cached, val) == cached # Some(val)

\* handle_update_ac_energy_consumption(val) on a device whose cache is cached:
\* the cache afterwards, and whether energy-changed was emitted.
handle_update_ac_energy_consumption(cached, val) ==
    IF ReadingDiffers(cached, val)
    THEN [cache |-> Some(val), emitted |-> TRUE]
    ELSE [cache |-> cached, emitted |-> FALSE]

\* fetch_energy_consumption, from the response on: one update for every
\* device the response names.
DeliverEnergy(consumptions) ==
    LET named == DOMAIN consumptions
        upd(d) == handle_update_ac_energy_consumption(
                      _ac_energy_consumption[d], consumptions[d])
    IN  /\ \A d \in named : Len(energyLog[d]) < MaxUpdates
        /\ _ac_energy_consumption' =
              [d \in Devices |->
                 IF d \in named THEN upd(d).cache ELSE _ac_energy_consumption[d]]
        /\ energyEmitted' =
              [d \in Devices |->
                 IF d \in named /\ upd(d).emitted
                 THEN energyEmitted[d] + 1 ELSE energyEmitted[d]]
        /\ energyLog' =
              [d \in Devices |->
                 IF d \in named
                 THEN Append(energyLog[d],
                             [val |-> consumptions[d], emitted |-> upd(d).emitted])
                 ELSE energyLog[d]]
        /\ UNCHANGED <<codecVars, mgrVars, taskVars, deviceVars, serviceVars>>

FetchEnergy ==
    \E named \in (SUBSET Devices) \ {{}} :
        \E consumptions \in [named -> Readings] : DeliverEnergy(consumptions)

InitEnergy ==
    IdleCodec /\ IdleEnergy /\ IdleDevice /\ IdleService /\ IdleManager /\ IdleTasks

NextEnergy == FetchEnergy

SpecEnergy == InitEnergy /\ [][NextEnergy]_vars

\* C6: an update emits energy-changed exactly when its reading differs, in
\* value or window start, from the reading the previous update cached (the
\* first update finds no reading cached); so two consecutive updates with the
\* same reading give one notification.
EnergyChangeDetection ==
    \A d \in Devices :
        /\ \A i \in 1..Len(energyLog[d]) :
              energyLog[d][i].emitted <=>
                  (i = 1 \/ energyLog[d][i].val # energyLog[d][i - 1].val)
        /\ energyEmitted[d] =
              Cardinality({i \in 1..Len(energyLog[d]) : energyLog[d][i].emitted})
        /\ (Len(energyLog[d]) >= 2 /\ energyLog[d][1].val = energyLog[d][2].val)
              => Cardinality({i \in 1..2 : energyLog[d][i].emitted}) = 1

\* C6 witness: a device that got the same reading twice and emitted once, and
\* a device whose second reading differed in the window start alone.
EnergyChangeDetectionWitness ==
    /\ Len(energyLog["a"]) = 2
    /\ energyLog["a"][1].val = energyLog["a"][2].val
    /\ energyEmitted["a"] = 1
    /\ Len(energyLog["b"]) = 2
    /\ energyLog["b"][1].val.energy_wh = energyLog["b"][2].val.energy_wh
    /\ energyLog["b"][1].val.since # energyLog["b"][2].val.since
    /\ energyEmitted["b"] = 2

-----------------------------------------------------------------------------
(* The periodic loops: ToshibaAcDevice.periodic_state_reload and the         *)
(* manager's periodic_fetch_energy_consumption and                          *)
(* periodic_fetch_device_connection. A task is "none" (never created),      *)
(* "sleep" (in the boundary wait), "fetch" (awaiting its fetch),            *)
(* "cancelling_*" (cancel() called, CancelledError not yet thrown into it)  *)
(* or "done".                                                               *)

Running == {"sleep", "fetch"}

Cancelling == {"cancelling_sleep", "cancelling_fetch"}

\* task.cancel(): the next step of the task throws CancelledError into it.
Cancel(at) ==
    CASE at = "sleep" -> "cancelling_sleep"
      [] at = "fetch" -> "cancelling_fetch"
      [] OTHER -> at

\* A loop whose try statement lets the failure of a cycle through.
LoopAfterFetchGivesUp(outcome) == IF outcome = "ok" THEN "sleep" ELSE "done"

\* The try statement of the three loops: the fetch returned, raised an
\* Exception (logged, the loop goes on) or raised CancelledError (re-raised).
LoopAfterFetch(outcome) ==
    CASE outcome = "ok" -> "sleep"
      [] outcome = "error" -> "sleep"
      [] outcome = "cancelled" -> "done"

\* async_sleep_until_next_multiply_of_minutes returns: the fetch is called.
Boundary(t) ==
    /\ task[t] = "sleep"
    /\ task' = [task EXCEPT ![t] = "fetch"]
    /\ cycle' = [cycle EXCEPT ![t] = IF @ = "error" THEN "rerunning" ELSE "running"]
    /\ UNCHANGED <<codecVars, energyVars, mgrVars, deviceVars, serviceVars>>

\* The awaited fetch returns or raises an Exception.
FetchReturn(t) ==
    \E outcome \in {"ok", "error"} :
        /\ task[t] = "fetch"
        /\ task' = [task EXCEPT ![t] = LoopAfterFetch(outcome)]
        /\ cycle' = [cycle EXCEPT ![t] = outcome]
        /\ UNCHANGED <<codecVars, energyVars, mgrVars, deviceVars, serviceVars>>

\* Somebody calls cancel() on the task.
CancelTask(t) ==
    /\ task[t] \in Running
    /\ task' = [task EXCEPT ![t] = Cancel(@)]
    /\ UNCHANGED <<cycle, codecVars, energyVars, mgrVars, deviceVars, serviceVars>>

\* CancelledError is thrown into the task: the boundary wait is outside the
\* try statement, the fetch inside it. The shutdown awaiting the task sees it
\* end cancelled.
TaskCancelled(t) ==
    /\ task[t] \in Cancelling
    /\ task' = [task EXCEPT ![t] = IF @ = "cancelling_sleep"
                                   THEN "done" ELSE LoopAfterFetch("cancelled")]
    /\ cleanup' = [cleanup EXCEPT ![t] = IF @ = "pending" THEN "cancelled" ELSE @]
    /\ UNCHANGED <<cycle, codecVars, energyVars, deviceVars, serviceVars, http_api, amqp_api, sas_token,
                   devices, devConnect, lockOwner, lockQ, pc, ret, failing,
                   lastShutdown, opsLeft, listings, devSession>>

\* A connected manager whose registry is populated: every task is running.
InitLoops ==
    /\ IdleCodec
    /\ IdleEnergy
    /\ IdleDevice
    /\ IdleService
    /\ http_api = "connected"
    /\ amqp_api = "connected"
    /\ sas_token = "tok"
    /\ devices = Devices
    /\ devConnect = [d \in Devices |-> "done"]
    /\ lockOwner = "free"
    /\ lockQ = <<>>
    /\ pc = [c \in Callers |-> "idle"]
    /\ ret = [c \in Callers |-> "none"]
    /\ failing = [c \in Callers |-> FALSE]
    /\ cleanup = [x \in Cleanups |-> "absent"]
    /\ lastShutdown = NoShutdown
    /\ opsLeft = 0
    /\ listings = 1
    /\ devSession = 0
    /\ task = [t \in Tasks |-> "sleep"]
    /\ cycle = [t \in Tasks |-> "none"]

NextLoops ==
    \E t \in Tasks : Boundary(t) \/ FetchReturn(t) \/ CancelTask(t) \/ TaskCancelled(t)

SpecLoops == InitLoops /\ [][NextLoops]_vars

\* The wall clock reaches every boundary; a task that was cancelled is
\* resumed. Nothing makes a fetch return: the transports set no timeout.
FairLoops ==
    /\ SpecLoops
    /\ \A t \in Tasks : WF_vars(Boundary(t)) /\ WF_vars(TaskCancelled(t))

\* C7: in each periodic loop a cycle that fails with an error other than
\* cancellation leaves the loop in its boundary wait, and unless the task is
\* cancelled the loop then runs its fetch again.
LoopSurvivesFailure ==
    /\ [][\A t \in Tasks :
            (cycle[t] \in {"running", "rerunning"} /\ cycle'[t] = "error")
                => task'[t] = "sleep"]_vars
    /\ \A t \in Tasks :
          (cycle[t] = "error" /\ task[t] = "sleep")
              ~> (task[t] = "fetch" \/ task[t] \in Cancelling \cup {"done"})

\* C7 witness: each of the three loops fetching again after a failed cycle.
LoopSurvivesFailureWitness ==
    \A t \in {"energy", "conn", "a"} : task[t] = "fetch" /\ cycle[t] = "rerunning"

-----------------------------------------------------------------------------
(* ToshibaAcDeviceManager: connect, get_devices, shutdown.                   *)
(* A coroutine runs without interruption from one await to the next, so an  *)
(* action is the code between two awaits; it is written as a function of    *)
(* the manager's state M, so that the pieces compose in the code's order.   *)

M ==
    [ http_api |-> http_api, amqp_api |-> amqp_api, sas_token |-> sas_token,
      devices |-> devices, devConnect |-> devConnect, task |-> task,
      lockOwner |-> lockOwner, lockQ |-> lockQ, pc |-> pc, ret |-> ret,
      failing |-> failing, cleanup |-> cleanup, lastShutdown |-> lastShutdown,
      opsLeft |-> opsLeft, listings |-> listings, devSession |-> devSession ]

SetM(m) ==
    /\ http_api' = m.http_api
    /\ amqp_api' = m.amqp_api
    /\ sas_token' = m.sas_token
    /\ devices' = m.devices
    /\ devConnect' = m.devConnect
    /\ task' = m.task
    /\ lockOwner' = m.lockOwner
    /\ lockQ' = m.lockQ
    /\ pc' = m.pc
    /\ ret' = m.ret
    /\ failing' = m.failing
    /\ cleanup' = m.cleanup
    /\ lastShutdown' = m.lastShutdown
    /\ opsLeft' = m.opsLeft
    /\ listings' = m.listings
    /\ devSession' = m.devSession
    /\ UNCHANGED <<codecVars, energyVars, cycle, deviceVars, serviceVars>>

\* asyncio.Lock: acquire() takes a free lock at once unless somebody waits;
\* release() wakes the first waiter, and nobody can overtake it.
LockFree(m) == m.lockOwner = "free" /\ m.lockQ = <<>>

\* The waiter c was woken with the lock: whoever is still queued is asleep.
Woken(c) == lockOwner = c /\ \A i \in 1..Len(lockQ) : lockQ[i] # c

Enqueue(m, c, at) == [m EXCEPT !.lockQ = Append(@, c), !.pc[c] = at]

Release(m) ==
    IF m.lockQ = <<>>
    THEN [m EXCEPT !.lockOwner = "free"]
    ELSE [m EXCEPT !.lockOwner = Head(m.lockQ), !.lockQ = Tail(m.lockQ)]

\* The call of caller c ends with r.
Finish(m, c, r) == [m EXCEPT !.pc[c] = "idle", !.ret[c] = r, !.failing[c] = FALSE]

\* The call ends inside `async with self.lock`.
Return(m, c, r) == Finish(Release(m), c, r)

\* ---- shutdown

\* A raise_all_errors that raises whatever is not a plain return, a
\* CancelledError too.
RECURSIVE raise_all_results(_, _)
raise_all_results(results, inflight) ==
    IF results = <<>> THEN inflight
    ELSE raise_all_results(Tail(results),
                           IF Head(results).outcome # "ok"
                           THEN <<Head(results).name>> \o inflight
                           ELSE inflight)

\* A raise_all_errors that stops at the first exception.
RECURSIVE raise_first_error(_, _)
raise_first_error(results, inflight) ==
    IF results = <<>> THEN inflight
    ELSE IF Head(results).outcome = "failed" THEN <<Head(results).name>>
    ELSE raise_first_error(Tail(results), inflight)

\* raise_all_errors(*results): raises each result that is an Exception, the
\* rest from the finally clause, so that each exception raised gets the one
\* in flight as its __context__. Gives the exception that comes out followed
\* by its __context__ chain (empty: nothing raised). A CancelledError is no
\* Exception.
RECURSIVE raise_all_errors(_, _)
raise_all_errors(results, inflight) ==
    IF results = <<>> THEN inflight
    ELSE raise_all_errors(Tail(results),
                          IF Head(results).outcome = "failed"
                          THEN <<Head(results).name>> \o inflight
                          ELSE inflight)

\* The results of asyncio.gather(*tasks, return_exceptions=True).
ShutdownResults(m) ==
    LET listed == SelectSeq(CleanupOrder, LAMBDA x : m.cleanup[x] # "absent")
    IN  [i \in 1..Len(listed) |-> [name |-> listed[i], outcome |-> m.cleanup[listed[i]]]]

\* gather(return_exceptions=True) returns when every awaitable has ended.
GatherDone(m) == \A x \in Cleanups : m.cleanup[x] \in {"absent", "ok", "failed", "cancelled"}

\* A finally clause that is reached only when nothing was raised.
ShutdownFinallyOnSuccess(m, chain) ==
    IF chain = <<>>
    THEN [m EXCEPT !.task = [t \in Tasks |-> IF t \in ManagerTasks THEN "none" ELSE @[t]],
                   !.amqp_api = "none", !.http_api = "none"]
    ELSE m

\* The finally clause of shutdown: both task handles and both transports.
ShutdownFinally(m, chain) ==
    [m EXCEPT !.task = [t \in Tasks |-> IF t \in ManagerTasks THEN "none" ELSE @[t]],
              !.amqp_api = "none", !.http_api = "none"]

\* A shutdown that empties the registry when it ends.
ShutdownFinishClearsRegistry(m, c) ==
    LET chain == raise_all_errors(ShutdownResults(m), <<>>)
        m1    == [ShutdownFinally(m, chain) EXCEPT
                     !.devices = {},
                     !.cleanup = [x \in Cleanups |-> "absent"],
                     !.listings = 0,
                     !.lastShutdown = [n |-> m.lastShutdown.n + 1, by |-> c,
                                       results |-> ShutdownResults(m),
                                       raised |-> chain]]
    IN  Return(m1, c,
               IF chain # <<>>
               THEN (IF m.failing[c] THEN "connect:shutdown_raised" ELSE "shutdown:raised")
               ELSE (IF m.failing[c] THEN "connect:error" ELSE "shutdown:ok"))

\* shutdown from the return of gather (or from `if tasks:` when there is
\* nothing to gather) to its end; a shutdown called by connect's except
\* clause is followed by connect's `raise`.
ShutdownFinish(m, c) ==
    LET chain == raise_all_errors(ShutdownResults(m), <<>>)
        m1    == [ShutdownFinally(m, chain) EXCEPT
                     !.cleanup = [x \in Cleanups |-> "absent"],
                     !.listings = 0,
                     !.lastShutdown = [n |-> m.lastShutdown.n + 1, by |-> c,
                                       results |-> ShutdownResults(m),
                                       raised |-> chain]]
    IN  Return(m1, c,
               IF chain # <<>>
               THEN (IF m.failing[c] THEN "connect:shutdown_raised" ELSE "shutdown:raised")
               ELSE (IF m.failing[c] THEN "connect:error" ELSE "shutdown:ok"))

\* device.shutdown(): cancels the reload task, if the device has one, and
\* awaits it; awaiting a task that has ended cancelled raises at once.
DeviceShutdown(at) ==
    CASE at = "none" -> [task |-> "none", cleanup |-> "ok"]
      [] at = "done" -> [task |-> "done", cleanup |-> "cancelled"]
      [] OTHER -> [task |-> Cancel(at), cleanup |-> "pending"]

\* shutdown, holding the lock, up to `await asyncio.gather(...)`, and the
\* start of what it gathers: the coroutines gather wraps start back to back
\* in the next pass of the event loop, and nothing that can run before them
\* reads or writes what they do.
ShutdownBody(m, c) ==
    LET m1 == [m EXCEPT
                 !.task = [t \in Tasks |->
                             CASE t \in ManagerTasks -> Cancel(m.task[t])
                               [] t \in m.devices -> DeviceShutdown(m.task[t]).task
                               [] OTHER -> m.task[t]],
                 !.cleanup =
                     [x \in Cleanups |->
                        CASE x \in ManagerTasks ->
                               IF m.task[x] = "none" THEN "absent"
                               ELSE IF m.task[x] = "done" THEN "cancelled"
                               ELSE "pending"
                          [] x \in Devices ->
                               IF x \in m.devices
                               THEN DeviceShutdown(m.task[x]).cleanup ELSE "absent"
                          [] x = "amqp" ->
                               IF m.amqp_api = "none" THEN "absent" ELSE "pending"
                          [] x = "http" ->
                               IF m.http_api = "none" THEN "absent" ELSE "pending"]]
    IN  IF \A x \in Cleanups : m1.cleanup[x] = "absent"
        THEN ShutdownFinish(m1, c)
        ELSE [m1 EXCEPT !.pc[c] = "s_gather"]

ShutdownEnter(m, c) ==
    IF LockFree(m)
    THEN ShutdownBody([m EXCEPT !.lockOwner = c], c)
    ELSE Enqueue(m, c, "s_lock")

\* ---- connect

\* A connect that awaits shutdown inside `async with self.lock`.
ConnectRaiseHoldingLock(m, c) == ShutdownEnter([m EXCEPT !.failing[c] = TRUE], c)

\* connect's except clause: the lock is released by `async with`, then
\* shutdown is awaited.
ConnectRaise(m, c) == ShutdownEnter([Release(m) EXCEPT !.failing[c] = TRUE], c)

ConnectAmqp(m, c) ==
    IF m.amqp_api = "none"
    THEN [m EXCEPT !.amqp_api = "built", !.pc[c] = "c_amqp"]
    ELSE Return(m, c, "connect:ok")

ConnectReg(m, c) ==
    IF m.sas_token = "none" THEN [m EXCEPT !.pc[c] = "c_reg"] ELSE ConnectAmqp(m, c)

\* connect, holding the lock, up to its first await.
ConnectBody(m, c) ==
    IF m.http_api = "none"
    THEN [m EXCEPT !.http_api = "built", !.pc[c] = "c_http"]
    ELSE ConnectReg(m, c)

ConnectEnter(m, c) ==
    IF LockFree(m)
    THEN ConnectBody([m EXCEPT !.lockOwner = c], c)
    ELSE Enqueue(m, c, "c_lock")

\* ---- get_devices

\* fetch_energy_consumption up to its await.
FetchEnergyStart(m, c) ==
    IF m.http_api = "none"
    THEN Return(m, c, "get_devices:error")
    ELSE [m EXCEPT !.pc[c] = "g_energy"]

\* get_devices, holding the lock, up to its first await.
GetDevicesBody(m, c) ==
    IF m.devices # {} THEN Return(m, c, "get_devices:ok")
    ELSE IF m.http_api = "none" THEN Return(m, c, "get_devices:error")
    ELSE [m EXCEPT !.pc[c] = "g_list"]

GetDevicesEnter(m, c) ==
    IF LockFree(m)
    THEN GetDevicesBody([m EXCEPT !.lockOwner = c], c)
    ELSE Enqueue(m, c, "g_lock")

\* The listing arrived: a device is constructed, registered and its connect()
\* gathered for every entry.
GetDevicesListed(m, c, listing) ==
    LET m1 == [m EXCEPT
                 !.listings = @ + 1,
                 !.devSession = IF listing = {} THEN @ ELSE m.lastShutdown.n,
                 !.devices = listing,
                 !.devConnect = [d \in Devices |->
                                   IF d \in listing THEN "loading" ELSE @[d]],
                 !.task = [t \in Tasks |-> IF t \in listing THEN "none" ELSE @[t]]]
    IN  IF listing = {}
        THEN FetchEnergyStart(m1, c)
        ELSE [m1 EXCEPT !.pc[c] = "g_connects"]

\* The initial energy fetch succeeded: the periodic tasks are created unless
\* their handles are set.
GetDevicesFetched(m, c) ==
    Return([m EXCEPT !.task = [t \in Tasks |->
                                 IF t \in ManagerTasks /\ @[t] = "none"
                                 THEN "sleep" ELSE @[t]]],
           c, "get_devices:ok")

\* ---- the actions

Spend(m) == [m EXCEPT !.opsLeft = @ - 1]

ConnectStart(c) ==
    /\ pc[c] = "idle" /\ opsLeft > 0
    /\ SetM(ConnectEnter(Spend(M), c))

ConnectLocked(c) ==
    /\ pc[c] = "c_lock" /\ Woken(c)
    /\ SetM(ConnectBody(M, c))

\* await self.http_api.connect()
HttpConnectReturn(c) ==
    /\ pc[c] = "c_http"
    /\ \E ok \in BOOLEAN :
          SetM(IF ok THEN ConnectReg([M EXCEPT !.http_api = "connected"], c)
                     ELSE ConnectRaise(M, c))

\* await self.http_api.register_client(self.device_id)
RegisterReturn(c) ==
    /\ pc[c] = "c_reg"
    /\ \E ok \in BOOLEAN :
          SetM(IF ok THEN ConnectAmqp([M EXCEPT !.sas_token = "tok"], c)
                     ELSE ConnectRaise(M, c))

\* await self.amqp_api.connect()
AmqpConnectReturn(c) ==
    /\ pc[c] = "c_amqp"
    /\ \E ok \in BOOLEAN :
          SetM(IF ok THEN Return([M EXCEPT !.amqp_api = "connected"], c, "connect:ok")
                     ELSE ConnectRaise(M, c))

ShutdownStart(c) ==
    /\ pc[c] = "idle" /\ opsLeft > 0
    /\ SetM(ShutdownEnter(Spend(M), c))

ShutdownLocked(c) ==
    /\ pc[c] = "s_lock" /\ Woken(c)
    /\ SetM(ShutdownBody(M, c))

\* asyncio.gather returns: every cancelled task has ended, and the two
\* transports' shutdown() have returned or raised.
ShutdownEnd(c) ==
    /\ pc[c] = "s_gather"
    /\ \A t \in Tasks : cleanup[t] # "pending"
    /\ \E closed \in [{x \in Transports : cleanup[x] = "pending"} -> {"ok", "failed"}] :
          LET m1 == [M EXCEPT !.cleanup = [x \in Cleanups |->
                                             IF x \in DOMAIN closed THEN closed[x] ELSE @[x]]]
          IN  GatherDone(m1) /\ SetM(ShutdownFinish(m1, c))

GetDevicesStart(c) ==
    /\ pc[c] = "idle" /\ opsLeft > 0
    /\ SetM(IF http_api = "none" \/ amqp_api = "none"
            THEN Finish(Spend(M), c, "get_devices:NotConnected")
            ELSE GetDevicesEnter(Spend(M), c))

GetDevicesLocked(c) ==
    /\ pc[c] = "g_lock" /\ Woken(c)
    /\ SetM(GetDevicesBody(M, c))

\* await self.http_api.get_devices()
ListingReturn(c) ==
    /\ pc[c] = "g_list"
    /\ \/ SetM(Return(M, c, "get_devices:error"))
       \/ \E listing \in SUBSET Devices : SetM(GetDevicesListed(M, c, listing))

\* device.connect(): load_additional_device_info returns, and the reload task
\* is created, or it raises.
DeviceInfoReturn(d) ==
    /\ devConnect[d] = "loading"
    /\ \E ok \in BOOLEAN :
          SetM(IF ok THEN [M EXCEPT !.devConnect[d] = "done", !.task[d] = "sleep"]
                     ELSE [M EXCEPT !.devConnect[d] = "failed"])

\* await asyncio.gather(*connects): raises as soon as one connect has raised
\* (the others go on), returns when all have returned.
GatherConnectsReturn(c) ==
    /\ pc[c] = "g_connects"
    /\ \/ /\ \E d \in devices : devConnect[d] = "failed"
          /\ SetM(Return(M, c, "get_devices:error"))
       \/ /\ \A d \in devices : devConnect[d] = "done"
          /\ SetM(FetchEnergyStart(M, c))

\* await self.fetch_energy_consumption(), from its await on
EnergyReturn(c) ==
    /\ pc[c] = "g_energy"
    /\ \E ok \in BOOLEAN :
          SetM(IF ok THEN GetDevicesFetched(M, c)
                     ELSE Return(M, c, "get_devices:error"))

InitManager ==
    /\ IdleCodec
    /\ IdleEnergy
    /\ IdleDevice
    /\ IdleService
    /\ IdleTasks
    /\ http_api = "none"
    /\ amqp_api = "none"
    /\ sas_token \in {"none", "tok"}
    /\ devices = {}
    /\ devConnect = [d \in Devices |-> "none"]
    /\ lockOwner = "free"
    /\ lockQ = <<>>
    /\ pc = [c \in Callers |-> "idle"]
    /\ ret = [c \in Callers |-> "none"]
    /\ failing = [c \in Callers |-> FALSE]
    /\ cleanup = [x \in Cleanups |-> "absent"]
    /\ lastShutdown = NoShutdown
    /\ opsLeft = MaxOps
    /\ listings = 0
    /\ devSession = 0

NextManager ==
    \/ \E c \in Callers :
          \/ ConnectStart(c) \/ ConnectLocked(c) \/ HttpConnectReturn(c)
          \/ RegisterReturn(c) \/ AmqpConnectReturn(c)
          \/ ShutdownStart(c) \/ ShutdownLocked(c) \/ ShutdownEnd(c)
          \/ GetDevicesStart(c) \/ GetDevicesLocked(c) \/ ListingReturn(c)
          \/ GatherConnectsReturn(c) \/ EnergyReturn(c)
    \/ \E d \in Devices : DeviceInfoReturn(d)
    \/ \E t \in Tasks : TaskCancelled(t)

SpecManager == InitManager /\ [][NextManager]_vars

\* One caller that awaits each call before it makes the next.
InitSequential ==
    /\ IdleCodec
    /\ IdleEnergy
    /\ IdleDevice
    /\ IdleService
    /\ IdleTasks
    /\ http_api = "none"
    /\ amqp_api = "none"
    /\ sas_token \in {"none", "tok"}
    /\ devices = {}
    /\ devConnect = [d \in Devices |-> "none"]
    /\ lockOwner = "free"
    /\ lockQ = <<>>
    /\ pc = [c \in Callers |-> "idle"]
    /\ ret = [c \in Callers |-> "none"]
    /\ failing = [c \in Callers |-> FALSE]
    /\ cleanup = [x \in Cleanups |-> "absent"]
    /\ lastShutdown = NoShutdown
    /\ opsLeft = MaxSeqOps
    /\ listings = 0
    /\ devSession = 0

NextSequential ==
    \/ \E c \in {"c1"} :
          \/ ConnectStart(c) \/ HttpConnectReturn(c)
          \/ RegisterReturn(c) \/ AmqpConnectReturn(c)
          \/ ShutdownStart(c) \/ ShutdownEnd(c)
          \/ GetDevicesStart(c) \/ ListingReturn(c)
          \/ GatherConnectsReturn(c) \/ EnergyReturn(c)
    \/ \E d \in Devices : DeviceInfoReturn(d)
    \/ \E t \in Tasks : TaskCancelled(t)

SpecSequential == InitSequential /\ [][NextSequential]_vars

-----------------------------------------------------------------------------
(* Claims about the teardown *)

ShutdownRets ==
    {"shutdown:ok", "shutdown:raised", "connect:error", "connect:shutdown_raised"}

\* This step ends a shutdown of caller c, its own or the one of its failed
\* connect.
ShutdownReturns(c) ==
    /\ lastShutdown'.n # lastShutdown.n
    /\ lastShutdown'.by = c

\* C8: cancelling a periodic task ends its loop wherever the cancellation
\* arrives, and when a manager shutdown returns or raises, both periodic tasks
\* of the manager and the reload task of every device in the registry have
\* ended.
ShutdownJoinsTasks ==
    /\ [][\A t \in Tasks : task[t] \in Cancelling => task'[t] \in {task[t], "done"}]_vars
    /\ [][\A c \in Callers :
            ShutdownReturns(c) =>
                \A t \in ManagerTasks \cup devices' : task'[t] \notin Running \cup Cancelling]_vars

Failed(results) == {results[i].name : i \in {j \in 1..Len(results) : results[j].outcome = "failed"}}

Names(results) == {results[i].name : i \in 1..Len(results)}

\* C9: when sub-cleanups of a shutdown fail, every sub-cleanup has still run
\* to its end, shutdown raises, and what it raises references every failure:
\* the exception and its __context__ chain are exactly the failures.
ShutdownRaisesAll ==
    [][\A c \in Callers :
          ShutdownReturns(c) =>
              LET last == lastShutdown'
              IN  /\ pc'[c] = "idle"
                  /\ ret'[c] \in ShutdownRets
                  /\ Names(last.results) = {x \in Cleanups : cleanup[x] # "absent"}
                  /\ \A i \in 1..Len(last.results) :
                        last.results[i].outcome \in {"ok", "failed", "cancelled"}
                  /\ {last.raised[i] : i \in 1..Len(last.raised)} = Failed(last.results)
                  /\ Len(last.raised) = Cardinality(Failed(last.results))
                  /\ (Failed(last.results) # {}) <=>
                        (ret'[c] \in {"shutdown:raised", "connect:shutdown_raised"})]_vars

\* C9 witness: a shutdown that cancelled tasks, found both transports failing
\* and raised an exception that references both failures.
ShutdownRaisesAllWitness ==
    /\ Len(lastShutdown.raised) = 2
    /\ Failed(lastShutdown.results) = Transports
    /\ \E i \in 1..Len(lastShutdown.results) : lastShutdown.results[i].outcome = "cancelled"
    /\ ret[lastShutdown.by] = "shutdown:raised"

\* C10: after every manager shutdown, returning or raising, both transport
\* handles and both periodic-task handles of the manager are absent.
ShutdownClearsHandles ==
    [][\A c \in Callers :
          ShutdownReturns(c) =>
              /\ http_api' = "none"
              /\ amqp_api' = "none"
              /\ \A t \in ManagerTasks : task'[t] = "none"]_vars

\* C10 witness: a shutdown that cancelled the manager's periodic tasks and
\* raised has just ended, and all four handles are absent.
ShutdownClearsHandlesWitness ==
    /\ lastShutdown.raised # <<>>
    /\ {"energy", "conn"} \subseteq Names(lastShutdown.results)
    /\ pc[lastShutdown.by] = "idle"
    /\ ret[lastShutdown.by] = "shutdown:raised"
    /\ http_api = "none"
    /\ amqp_api = "none"
    /\ \A t \in ManagerTasks : task[t] = "none"

-----------------------------------------------------------------------------
(* Claims about the registry, connect and the lock *)

\* C11: within one connected session the get_devices calls, however many and
\* however interleaved, fetch one fleet listing in all, whatever the listing
\* holds: a second listing is never received before the handles are cleared.
OneListingPerSession == listings <= 1

\* This step ends a get_devices of caller c with the device list.
GetDevicesReturns(c) ==
    /\ GetDevicesStart(c) \/ GetDevicesLocked(c) \/ EnergyReturn(c)
    /\ pc'[c] = "idle"
    /\ ret'[c] = "get_devices:ok"

\* C12: the registry is populated once per connected session: the devices
\* that get_devices returns were constructed from a listing fetched in this
\* session and hold this session's transports, also after a shutdown and a
\* new connect.
ReconnectRepopulates ==
    [][\A c \in Callers :
          (GetDevicesReturns(c) /\ devices' # {}) =>
              devSession' = lastShutdown'.n]_vars

\* C13: when a step of connect fails, a full shutdown runs before the caller
\* sees the failure, the caller receives the error of the failed step, and
\* both transport handles are absent afterwards.
FailedConnectReraises ==
    [][\A c \in Callers :
          /\ (HttpConnectReturn(c) \/ RegisterReturn(c) \/ AmqpConnectReturn(c))
                 /\ ret'[c] # "connect:ok" /\ pc'[c] \notin {"c_reg", "c_amqp"}
             => (failing'[c] \/ ShutdownReturns(c))
          /\ (failing[c] \/ failing'[c]) /\ pc'[c] = "idle"
             => /\ ShutdownReturns(c)
                /\ ret'[c] = "connect:error"
                /\ http_api' = "none" /\ amqp_api' = "none"]_vars

Inside(c) ==
    pc[c] \in {"c_http", "c_reg", "c_amqp", "g_list", "g_connects", "g_energy", "s_gather"}

Waiting(c) == pc[c] \in {"c_lock", "g_lock", "s_lock"}

Queued(c) == \E i \in 1..Len(lockQ) : lockQ[i] = c

\* C14: at most one of the calls of connect, get_devices and shutdown is
\* inside its critical section, and it is the one that holds the lock; a
\* call that waits for the lock waits for another caller, so the shutdown of
\* a failed connect never waits for its own connect; the lock is held only
\* by a call that is under way, and what a call inside its critical section
\* awaits can end.
LockExcludes ==
    /\ Cardinality({c \in Callers : Inside(c)}) <= 1
    /\ \A c \in Callers : Inside(c) => lockOwner = c /\ ~Queued(c)
    /\ \A c \in Callers :
          Waiting(c) =>
              \/ Woken(c)
              \/ Queued(c) /\ lockOwner \in Callers \ {c}
    /\ lockOwner \in Callers => Inside(lockOwner) \/ Waiting(lockOwner)
    /\ \A c \in Callers :
          /\ pc[c] = "s_gather" =>
                \A t \in Tasks : cleanup[t] = "pending" => task[t] \in Cancelling
          /\ pc[c] = "g_connects" =>
                \A d \in devices : devConnect[d] \in {"loading", "done", "failed"}

\* C14 witness: the shutdown of a failed connect waits for the lock while
\* another call is inside its critical section.
LockExcludesWitness ==
    \E c, o \in Callers : failing[c] /\ pc[c] = "s_lock" /\ Queued(c) /\ Inside(o)

\* C15: a get_devices that finds a transport handle absent fails with
\* NotConnected and changes nothing; otherwise its critical section runs
\* with both transport handles present.
GetDevicesNeedsTransports ==
    [][\A c \in Callers :
          /\ GetDevicesStart(c) /\ (http_api = "none" \/ amqp_api = "none")
             => /\ ret'[c] = "get_devices:NotConnected"
                /\ UNCHANGED <<devices, listings, http_api, amqp_api, task, devConnect>>
          /\ GetDevicesLocked(c) => (http_api # "none" /\ amqp_api # "none")]_vars

-----------------------------------------------------------------------------
(* ToshibaAcDevice: the state path (state_reload and                         *)
(* handle_cmd_hcu_from_estia) and the telemetry path                        *)
(* (handle_cmd_heartbeat_estia) of one device.                              *)

\* ToshibaAcFcuState.update: merges status_diff into the stored string and
\* decodes the result; an exception of merge or decode leaves through it,
\* and what it returns is always True.
update(self, status_diff) ==
    LET state_update == merge(status_diff, self._status_string)
        decoded      == decode(self, state_update.val)
    IN  IF state_update.err # "none"
        THEN [state |-> self, err |-> state_update.err, changed |-> TRUE]
        ELSE [state |-> decoded.state, err |-> decoded.err, changed |-> TRUE]

\* Full blobs: all one byte but for one position.
DeviceBlobs ==
    {ToHex([Fill(b, BlobLen) EXCEPT ![p] = v]) :
        b \in {0, NONE_VAL}, p \in {1, 20}, v \in {1, NONE_VAL}}

\* A blob one byte short, and a string of the right length that is not hex.
ShortBlob == ToHex(Fill(1, BlobLen - 1))

NotHex == [i \in 1..(2 * BlobLen) |-> "z"]

\* The payloads of CMD_HDU_FROM_ESTIA: no "data" key, a "data" that is a
\* number, or a "data" that is a string.
HcuPayloads ==
    {[shape |-> "missing", data |-> <<>>], [shape |-> "number", data |-> <<>>]}
    \cup {[shape |-> "str", data |-> d] : d \in DeviceBlobs \cup {ShortBlob, NotHex}}

\* What a call of update does to the device: state_changed is awaited when
\* update returned True.
Updated(op, shape, hex) ==
    LET r == update(fcu_state, hex)
    IN  /\ fcu_state' = r.state
        /\ stateChanged' = IF r.err = "none" /\ r.changed
                           THEN stateChanged + 1 ELSE stateChanged
        /\ call' = [op |-> op, shape |-> shape, data |-> hex, payload |-> <<>>,
                    err |-> r.err, emitted |-> stateChanged, before |-> fcu_state]

\* state_reload, from the return of http_api.get_device_state on.
StateReload ==
    /\ callsLeft > 0
    /\ callsLeft' = callsLeft - 1
    /\ \E hex_state \in DeviceBlobs \cup {ShortBlob} : Updated("reload", "str", hex_state)
    /\ UNCHANGED <<temperatures, _water_flow_rate>>
    /\ UNCHANGED <<codecVars, energyVars, mgrVars, taskVars, serviceVars>>

\* handle_cmd_hcu_from_estia: payload["data"] raises KeyError when the key is
\* missing; a data that is no str is logged and dropped.
HandleHcu ==
    /\ callsLeft > 0
    /\ callsLeft' = callsLeft - 1
    /\ \E payload \in HcuPayloads :
          CASE payload.shape = "missing" ->
                 /\ call' = [op |-> "hcu", shape |-> "missing", data |-> <<>>,
                             payload |-> <<>>, err |-> "KeyError",
                             emitted |-> stateChanged, before |-> fcu_state]
                 /\ UNCHANGED <<fcu_state, stateChanged>>
            [] payload.shape = "number" ->
                 /\ call' = [op |-> "hcu", shape |-> "number", data |-> <<>>,
                             payload |-> <<>>, err |-> "none",
                             emitted |-> stateChanged, before |-> fcu_state]
                 /\ UNCHANGED <<fcu_state, stateChanged>>
            [] OTHER -> Updated("hcu", "str", payload.data)
    /\ UNCHANGED <<temperatures, _water_flow_rate>>
    /\ UNCHANGED <<codecVars, energyVars, mgrVars, taskVars, serviceVars>>

\* int(s, 16) of a string of hex digits; any other string of the samples
\* raises ValueError.
Parses(s) == Len(s) > 0 /\ \A i \in 1..Len(s) : IsHexDigit(s[i])

RECURSIVE HexValue(_)
HexValue(s) ==
    IF s = <<>> THEN 0
    ELSE 16 * HexValue(SubSeq(s, 1, Len(s) - 1)) + DigitVal(s[Len(s)])

\* The value under the i-th key of a heartbeat payload.
Reading(payload, i) == CHOOSE s \in payload[i] : TRUE

\* The keys the heartbeat handler reads, in its order: TFI_temp, THO_temp,
\* TO_temp, TWI_temp, TWO_temp, FLO. A payload is the values under them, None
\* where the key is missing.
HeartbeatKeys == 1..6

\* The try block of handle_cmd_heartbeat_estia from its i-th assignment on:
\* a key that is missing or a value that does not parse raises, and the
\* except clause ends the block.
RECURSIVE HeartbeatAssign(_, _, _)
HeartbeatAssign(self, payload, i) ==
    IF i \notin HeartbeatKeys THEN self
    ELSE IF payload[i] = None \/ ~Parses(Reading(payload, i)) THEN self
    ELSE HeartbeatAssign(
             IF i <= Len(Readouts)
             THEN [self EXCEPT !.temperatures[Readouts[i]] =
                                   Some(HexValue(Reading(payload, i)))]
             ELSE [self EXCEPT !._water_flow_rate = Some(HexValue(Reading(payload, i)))],
             payload, i + 1)

GoodReadings == {<<"1", "a">>, <<"0", "5">>}

\* Payloads whose readings all parse, or all but one, which is missing or
\* is no number.
HeartbeatPayloads ==
    {[i \in HeartbeatKeys |-> IF i = bad THEN junk ELSE Some(v)] :
        v \in GoodReadings, bad \in 0..6, junk \in {None, Some(<<"z">>)}}

\* handle_cmd_heartbeat_estia: the try block, then state_changed.
HandleHeartbeat ==
    /\ callsLeft > 0
    /\ callsLeft' = callsLeft - 1
    /\ \E payload \in HeartbeatPayloads :
          LET self == HeartbeatAssign([temperatures |-> temperatures,
                                       _water_flow_rate |-> _water_flow_rate],
                                      payload, 1)
          IN  /\ temperatures' = self.temperatures
              /\ _water_flow_rate' = self._water_flow_rate
              /\ call' = [op |-> "heartbeat", shape |-> "dict", data |-> <<>>,
                          payload |-> payload, err |-> "none",
                          emitted |-> stateChanged, before |-> fcu_state]
    /\ stateChanged' = stateChanged + 1
    /\ UNCHANGED fcu_state
    /\ UNCHANGED <<codecVars, energyVars, mgrVars, taskVars, serviceVars>>

\* A device that get_devices constructed from a listing's initial_ac_state
\* (the constructor raises unless the blob decodes) and connected.
InitDevice ==
    /\ IdleCodec
    /\ IdleEnergy
    /\ IdleManager
    /\ IdleTasks
    /\ IdleService
    /\ \E initial_ac_state \in DeviceBlobs :
          fcu_state = from_hex_state(initial_ac_state).state
    /\ temperatures = [r \in {Readouts[i] : i \in 1..Len(Readouts)} |-> None]
    /\ _water_flow_rate = Some(0)
    /\ stateChanged = 0
    /\ call = NoCall
    /\ callsLeft = MaxCalls

NextDevice == StateReload \/ HandleHcu

SpecDevice == InitDevice /\ [][NextDevice]_vars

NextTelemetry == HandleHeartbeat

SpecTelemetry == InitDevice /\ [][NextTelemetry]_vars

\* The payload of a pushed state command is none the handler can use.
Malformed == call.shape # "str" \/ ~IsHex(call.data) \/ Len(call.data) # 2 * BlobLen

\* C16: a pushed partial update whose payload has an unexpected shape (no
\* data, data that is no string, no hex, or of the wrong length) is dropped:
\* the handler returns without raising, emits no state-changed and leaves
\* the stored blob and the decoded fields as they were.
MalformedPushDropped ==
    (call.op = "hcu" /\ Malformed) =>
        /\ call.err = "none"
        /\ stateChanged = call.emitted
        /\ fcu_state = call.before

\* C17: in a telemetry push every reading that parses is stored, wherever
\* the missing or unparsable one stands, and state-changed is emitted once.
HeartbeatFieldsIndependent ==
    call.op = "heartbeat" =>
        /\ call.err = "none"
        /\ stateChanged = call.emitted + 1
        /\ \A i \in HeartbeatKeys :
              (call.payload[i] # None /\ Parses(Reading(call.payload, i))) =>
                  (IF i <= Len(Readouts) THEN temperatures[Readouts[i]]
                                         ELSE _water_flow_rate)
                      = Some(HexValue(Reading(call.payload, i)))

\* C18: after any sequence of reloads and pushed updates, failed ones
\* included, the stored blob has 36 bytes and the decoded fields are the
\* decode of it; a failed decode leaves the stored blob as it was.
StoredBlobDecodes ==
    /\ Len(fcu_state._status_string) = 2 * BlobLen
    /\ from_hex_state(fcu_state._status_string) = [state |-> fcu_state, err |-> "none"]
    /\ call.err # "none" => fcu_state._status_string = call.before._status_string

\* C19: after a full reload that succeeded the stored blob is the fetched
\* blob, byte for byte, whatever the previous blob was and wherever the
\* fetched blob holds ff.
ReloadStoresFetched ==
    (call.op = "reload" /\ call.err = "none") => fcu_state._status_string = call.data

\* C20: a full reload emits state-changed only if the decoded state differs
\* from the one held before; a reload that fetches the current blob emits
\* nothing.
ReloadEmitsOnChange ==
    (call.op = "reload" /\ call.err = "none") =>
        /\ stateChanged > call.emitted => fcu_state # call.before
        /\ call.data = call.before._status_string => stateChanged = call.emitted

-----------------------------------------------------------------------------
(* Command dispatch: ToshibaAcDeviceManager.handle_cmd_heartbeat_estia and  *)
(* handle_cmd_hcu_from_estia, which the message-bus transport calls from    *)
(* its own thread. Each looks the device up, schedules its handler on the   *)
(* manager's loop with run_coroutine_threadsafe and waits in                *)
(* Future.result().                                                         *)

\* The blob of the listing every device is constructed from, and the blob
\* the transport pushes.
ListedBlob == ToHex(Fill(NONE_VAL, BlobLen))

PushedBlob == ToHex([Fill(NONE_VAL, BlobLen) EXCEPT ![1] = 1])

\* The device get_devices constructs.
ListedDevice == [NewDevice EXCEPT !.fcu_state = from_hex_state(ListedBlob).state]

\* The envelopes the transport delivers: the source is a device of the
\* fleet or an id the listing never named.
Sources == Devices \cup {"x"}

EnvelopePayloads ==
    [hcu |-> {[shape |-> "str", data |-> PushedBlob, readings |-> <<>>],
              [shape |-> "missing", data |-> <<>>, readings |-> <<>>]},
     heartbeat |-> {[shape |-> "dict", data |-> <<>>,
                     readings |-> [i \in HeartbeatKeys |->
                                     IF i = 3 THEN None ELSE Some(<<"0", "5">>)]]}]

Envelopes ==
    {[source |-> s, cmd |-> "hcu", payload |-> p] :
        s \in Sources, p \in EnvelopePayloads.hcu}
    \cup {[source |-> s, cmd |-> "heartbeat", payload |-> p] :
        s \in Sources, p \in EnvelopePayloads.heartbeat}

\* ToshibaAcDevice.handle_cmd_hcu_from_estia as a function of the device:
\* the device after it and the exception that left it.
handle_cmd_hcu_from_estia(self, payload) ==
    CASE payload.shape = "missing" -> [device |-> self, err |-> "KeyError"]
      [] payload.shape = "number"  -> [device |-> self, err |-> "none"]
      [] OTHER ->
            LET r == update(self.fcu_state, payload.data)
            IN  [device |-> [self EXCEPT !.fcu_state = r.state], err |-> r.err]

\* ToshibaAcDevice.handle_cmd_heartbeat_estia as a function of the device.
handle_cmd_heartbeat_estia(self, payload) ==
    [device |-> HeartbeatAssign(self, payload.readings, 1), err |-> "none"]

\* The handler an envelope is for.
Handle(self, env) ==
    IF env.cmd = "hcu"
    THEN handle_cmd_hcu_from_estia(self, env.payload)
    ELSE handle_cmd_heartbeat_estia(self, env.payload)

\* A Future.result() that returns whether or not the handler has ended.
ResultWithoutWaiting(b) == TRUE

\* Future.result() in the transport's thread returns once the coroutine it
\* scheduled has ended on the loop.
Result(b) == b.scheduled = <<>>

\* The transport calls a dispatch entry point with an envelope.
\* self.devices[source_id] raises KeyError in the transport's thread for an
\* id the registry does not hold; otherwise the handler's coroutine is
\* scheduled on the loop and the thread waits for its result.
Deliver ==
    /\ bus.pc = "idle"
    /\ bus.left > 0
    /\ amqp_api = "connected"
    /\ \E env \in Envelopes :
          bus' = IF env.source \in devices
                 THEN [bus EXCEPT !.pc = "waiting", !.env = env,
                                  !.delivered = @ + 1, !.left = @ - 1,
                                  !.scheduled = Append(@, env)]
                 ELSE [bus EXCEPT !.env = NoEnvelope, !.raised = "KeyError",
                                  !.delivered = @ + 1, !.missed = @ + 1,
                                  !.left = @ - 1]
    /\ UNCHANGED <<fleet, renewal, status>>
    /\ UNCHANGED <<codecVars, energyVars, mgrVars, taskVars, deviceVars>>

\* The loop runs the oldest scheduled handler to its end; what it raises is
\* kept in the future.
RunHandler ==
    /\ bus.scheduled # <<>>
    /\ LET env == Head(bus.scheduled)
           r   == Handle(fleet[env.source], env)
       IN  /\ fleet' = [fleet EXCEPT ![env.source] = r.device]
           /\ bus' = [bus EXCEPT !.scheduled = Tail(@), !.applied = @ + 1,
                                 !.handler = r.err]
    /\ UNCHANGED <<renewal, status>>
    /\ UNCHANGED <<codecVars, energyVars, mgrVars, taskVars, deviceVars>>

\* Future.result() returns, or raises what the handler raised, and the
\* entry point returns to the transport.
DispatchReturn ==
    /\ bus.pc = "waiting"
    /\ Result(bus)
    /\ bus' = [bus EXCEPT !.pc = "idle", !.env = NoEnvelope,
                          !.raised = IF bus.scheduled = <<>> THEN bus.handler ELSE "none"]
    /\ UNCHANGED <<fleet, renewal, status>>
    /\ UNCHANGED <<codecVars, energyVars, mgrVars, taskVars, deviceVars>>

\* The transport's thread and the loop of a manager that get_devices has
\* returned from.
InitBus ==
    /\ IdleCodec
    /\ IdleEnergy
    /\ IdleDevice
    /\ http_api = "connected"
    /\ amqp_api = "connected"
    /\ sas_token = "tok"
    /\ devices \in {{"a"}, Devices}
    /\ devConnect = [d \in Devices |-> IF d \in devices THEN "done" ELSE "none"]
    /\ lockOwner = "free"
    /\ lockQ = <<>>
    /\ pc = [c \in Callers |-> "idle"]
    /\ ret = [c \in Callers |-> "none"]
    /\ failing = [c \in Callers |-> FALSE]
    /\ cleanup = [x \in Cleanups |-> "absent"]
    /\ lastShutdown = NoShutdown
    /\ opsLeft = 0
    /\ listings = 1
    /\ devSession = 0
    /\ task = [t \in Tasks |-> IF t \in ManagerTasks \cup devices THEN "sleep" ELSE "none"]
    /\ cycle = [t \in Tasks |-> "none"]
    /\ fleet = [d \in Devices |-> ListedDevice]
    /\ bus = [IdleBus EXCEPT !.left = MaxEnvelopes]
    /\ renewal = NoRenewal
    /\ status = NoStatus

NextBus == Deliver \/ RunHandler \/ DispatchReturn

SpecBus == InitBus /\ [][NextBus]_vars

\* A manager that connect has returned from, with one caller that lists
\* the devices and shuts down, and the transport's thread beside it.
InitDispatch ==
    /\ IdleCodec
    /\ IdleEnergy
    /\ IdleDevice
    /\ IdleTasks
    /\ http_api = "connected"
    /\ amqp_api = "connected"
    /\ sas_token = "tok"
    /\ devices = {}
    /\ devConnect = [d \in Devices |-> "none"]
    /\ lockOwner = "free"
    /\ lockQ = <<>>
    /\ pc = [c \in Callers |-> "idle"]
    /\ ret = [c \in Callers |-> "none"]
    /\ failing = [c \in Callers |-> FALSE]
    /\ cleanup = [x \in Cleanups |-> "absent"]
    /\ lastShutdown = NoShutdown
    /\ opsLeft = MaxDispatchOps
    /\ listings = 0
    /\ devSession = 0
    /\ fleet = [d \in Devices |-> ListedDevice]
    /\ bus = [IdleBus EXCEPT !.left = MaxPushes]
    /\ renewal = NoRenewal
    /\ status = NoStatus

NextDispatch ==
    \/ \E c \in {"c1"} :
          \/ GetDevicesStart(c) \/ ListingReturn(c)
          \/ GatherConnectsReturn(c) \/ EnergyReturn(c)
          \/ ShutdownStart(c) \/ ShutdownEnd(c)
    \/ \E d \in Devices : DeviceInfoReturn(d)
    \/ \E t \in Tasks : TaskCancelled(t)
    \/ Deliver \/ RunHandler \/ DispatchReturn

SpecDispatch == InitDispatch /\ [][NextDispatch]_vars

-----------------------------------------------------------------------------
(* Token renewal: ToshibaAcDeviceManager.renew_sas_token *)

\* The tokens register_client returns.
Tokens == {"tok", "tok2"}

\* The manager's variables that renewal and the status fetch leave alone.
mgrRest == <<http_api, amqp_api, devices, devConnect, lockOwner, lockQ, pc, ret,
             failing, cleanup, lastShutdown, opsLeft, listings, devSession>>

\* A renewal that keeps the token it had.
StoredTokenKept(current, registered) == current

\* self.sas_token = await self.http_api.register_client(self.device_id)
StoredToken(current, registered) == registered

\* The call up to its first await: without a request/response transport it
\* raises "Not connected".
RenewStart ==
    /\ renewal.pc = "idle"
    /\ renewal.left > 0
    /\ renewal' = IF http_api # "none"
                  THEN [renewal EXCEPT !.pc = "registering", !.left = @ - 1,
                                       !.before = sas_token, !.ret = "none",
                                       !.registered = "none"]
                  ELSE [renewal EXCEPT !.left = @ - 1, !.before = sas_token,
                                       !.ret = "NotConnected", !.registered = "none"]
    /\ UNCHANGED <<fleet, bus, status>>
    /\ UNCHANGED <<codecVars, energyVars, mgrVars, taskVars, deviceVars>>

\* register_client returns a token, which is stored and handed to the
\* token-updated callback, or raises.
RegisterClientReturn ==
    /\ renewal.pc = "registering"
    /\ \/ \E token \in Tokens :
             /\ sas_token' = StoredToken(sas_token, token)
             /\ renewal' = [renewal EXCEPT !.pc = "notifying", !.registered = token,
                                           !.notified = Append(@, sas_token')]
       \/ /\ renewal' = [renewal EXCEPT !.pc = "idle", !.ret = "error"]
          /\ UNCHANGED sas_token
    /\ UNCHANGED <<fleet, bus, status>>
    /\ UNCHANGED <<codecVars, energyVars, mgrRest, taskVars, deviceVars>>

\* The callback returns and the call returns self.sas_token, or the
\* callback raises.
NotifyReturn ==
    /\ renewal.pc = "notifying"
    /\ \E ok \in BOOLEAN :
          renewal' = [renewal EXCEPT !.pc = "idle",
                                     !.ret = IF ok THEN sas_token ELSE "error"]
    /\ UNCHANGED <<fleet, bus, status>>
    /\ UNCHANGED <<codecVars, energyVars, mgrVars, taskVars, deviceVars>>

\* A manager before connect or after it, and a caller that renews the token.
InitToken ==
    /\ IdleCodec
    /\ IdleEnergy
    /\ IdleDevice
    /\ IdleTasks
    /\ \/ http_api = "none" /\ amqp_api = "none" /\ sas_token \in {"none", "tok"}
       \/ http_api = "connected" /\ amqp_api = "connected" /\ sas_token = "tok"
    /\ devices = {}
    /\ devConnect = [d \in Devices |-> "none"]
    /\ lockOwner = "free"
    /\ lockQ = <<>>
    /\ pc = [c \in Callers |-> "idle"]
    /\ ret = [c \in Callers |-> "none"]
    /\ failing = [c \in Callers |-> FALSE]
    /\ cleanup = [x \in Cleanups |-> "absent"]
    /\ lastShutdown = NoShutdown
    /\ opsLeft = 0
    /\ listings = 0
    /\ devSession = 0
    /\ fleet = [d \in Devices |-> NewDevice]
    /\ bus = IdleBus
    /\ renewal = [NoRenewal EXCEPT !.left = MaxRenewals]
    /\ status = NoStatus

NextToken == RenewStart \/ RegisterClientReturn \/ NotifyReturn

SpecToken == InitToken /\ [][NextToken]_vars

\* C23: a renewal with the request/response transport present registers
\* the client again, stores the token that returns as the manager's token,
\* notifies the subscribers with that token and returns it; with the
\* transport absent it fails with "Not connected", leaves the stored token
\* as it is and notifies nobody.
RenewalStoresNotifiesReturns ==
    [][/\ (RenewStart /\ http_api = "none") =>
            /\ renewal'.ret = "NotConnected"
            /\ renewal'.pc = "idle"
            /\ sas_token' = sas_token
            /\ renewal'.notified = renewal.notified
       /\ (RenewStart /\ http_api # "none") => renewal'.pc = "registering"
       /\ (RegisterClientReturn /\ renewal'.pc = "notifying") =>
            /\ sas_token' = renewal'.registered
            /\ renewal'.notified = Append(renewal.notified, renewal'.registered)
       /\ (NotifyReturn /\ renewal'.ret # "error") =>
            /\ renewal'.ret = renewal.registered
            /\ sas_token' = renewal.registered
            /\ renewal'.notified # <<>>
            /\ renewal'.notified[Len(renewal'.notified)] = renewal.registered]_vars

\* C23 witness: a renewal replaced the token by a different one, notified
\* it and returned it.
RenewalStoresNotifiesReturnsWitness ==
    /\ renewal.pc = "idle"
    /\ renewal.ret = "tok2"
    /\ renewal.before = "tok"
    /\ sas_token = "tok2"
    /\ renewal.notified # <<>>

-----------------------------------------------------------------------------
(* The connection-status fetch: ToshibaAcDeviceManager.fetch_device_status *)

\* The methods class ToshibaAcDevice defines.
DeviceMethods ==
    {"connect", "shutdown", "load_additional_device_info", "state_reload",
     "state_changed", "periodic_state_reload", "handle_cmd_hcu_from_estia",
     "handle_cmd_heartbeat_estia", "handle_update_ac_energy_consumption",
     "send_state_to_ac", "set_ac_status", "set_ac_mode"}

\* A response of http_api.get_device_connection_state: for each id, whether
\* the response names it and the online value it reports.
Responses == [Devices -> {"absent", "online", "offline"}]

Named(response) == {id \in Devices : response[id] # "absent"}

\* fetch_device_status from the return of the transport call on. The debug
\* message reads self.devices[id].name for every id of the response; then
\* the loop calls self.devices[id].handle_connection_state(online) for each.
StatusFetched(response) ==
    IF \E id \in Named(response) : id \notin devices
    THEN [status EXCEPT !.response = response, !.err = "KeyError",
                        !.fetched = @ + 1]
    ELSE IF Named(response) # {} /\ "handle_connection_state" \notin DeviceMethods
    THEN [status EXCEPT !.response = response, !.err = "AttributeError",
                        !.fetched = @ + 1]
    ELSE [status EXCEPT !.response = response, !.err = "none", !.fetched = @ + 1,
                        !.online = [d \in Devices |->
                                      IF d \in Named(response)
                                      THEN Some(response[d] = "online") ELSE @[d]]]

\* fetch_device_status up to its await: without a request/response
\* transport it raises "Not connected".
FetchStatusStart ==
    /\ status.pc = "idle"
    /\ status.left > 0
    /\ status' = IF http_api # "none"
                 THEN [status EXCEPT !.pc = "fetching", !.left = @ - 1]
                 ELSE [status EXCEPT !.err = "NotConnected", !.left = @ - 1]
    /\ UNCHANGED <<fleet, bus, renewal>>
    /\ UNCHANGED <<codecVars, energyVars, mgrVars, taskVars, deviceVars>>

\* The transport call returns a response, or raises.
StatusReturn ==
    /\ status.pc = "fetching"
    /\ \/ \E response \in Responses :
             status' = [StatusFetched(response) EXCEPT !.pc = "idle"]
       \/ status' = [status EXCEPT !.pc = "idle", !.err = "TransportError"]
    /\ UNCHANGED <<fleet, bus, renewal>>
    /\ UNCHANGED <<codecVars, energyVars, mgrVars, taskVars, deviceVars>>

\* A connected manager whose registry holds none, one or both devices.
InitStatus ==
    /\ IdleCodec
    /\ IdleEnergy
    /\ IdleDevice
    /\ http_api = "connected"
    /\ amqp_api = "connected"
    /\ sas_token = "tok"
    /\ devices \in {{}, {"a"}, Devices}
    /\ devConnect = [d \in Devices |-> IF d \in devices THEN "done" ELSE "none"]
    /\ lockOwner = "free"
    /\ lockQ = <<>>
    /\ pc = [c \in Callers |-> "idle"]
    /\ ret = [c \in Callers |-> "none"]
    /\ failing = [c \in Callers |-> FALSE]
    /\ cleanup = [x \in Cleanups |-> "absent"]
    /\ lastShutdown = NoShutdown
    /\ opsLeft = 0
    /\ listings = 1
    /\ devSession = 0
    /\ task = [t \in Tasks |->
                 IF devices # {} /\ t \in ManagerTasks \cup devices
                 THEN "sleep" ELSE "none"]
    /\ cycle = [t \in Tasks |-> "none"]
    /\ fleet = [d \in Devices |-> ListedDevice]
    /\ bus = IdleBus
    /\ renewal = NoRenewal
    /\ status = [NoStatus EXCEPT !.left = MaxFetches]

NextStatus == FetchStatusStart \/ StatusReturn

SpecStatus == InitStatus /\ [][NextStatus]_vars

\* C28: a connection-status fetch whose transport call succeeds, with a
\* response that names devices of the registry, ends without error and has
\* set the connectivity flag of every device the response names to the
\* online value it reports.
StatusFetchSetsFlags ==
    (status.pc = "idle" /\ status.fetched > 0
         /\ status.err \notin {"TransportError", "NotConnected"}
         /\ Named(status.response) \subseteq devices) =>
        /\ status.err = "none"
        /\ \A d \in Named(status.response) :
              status.online[d] = Some(status.response[d] = "online")

-----------------------------------------------------------------------------
(* Claims about the command dispatch *)

\* C21: a dispatch entry point returns to the transport only after the
\* handler of the addressed device has run to its end on the loop, so the
\* envelopes the transport delivers one after another are applied to the
\* devices in the order of delivery; what the handler raises, or the
\* KeyError of looking the device up, is raised in the transport's thread.
DispatchBlocksUntilHandled ==
    [][/\ Deliver =>
            /\ bus.applied + bus.missed = bus.delivered
            /\ bus'.pc = "idle" => (bus'.raised = "KeyError" /\ fleet' = fleet)
            /\ bus'.pc = "waiting" => bus'.scheduled = <<bus'.env>>
       /\ RunHandler =>
            /\ bus.pc = "waiting"
            /\ bus.scheduled = <<bus.env>>
            /\ bus.applied + bus.missed + 1 = bus.delivered
            /\ fleet'[bus.env.source] = Handle(fleet[bus.env.source], bus.env).device
            /\ bus'.handler = Handle(fleet[bus.env.source], bus.env).err
       /\ DispatchReturn =>
            /\ bus.scheduled = <<>>
            /\ bus'.applied + bus'.missed = bus'.delivered
            /\ bus'.raised = bus.handler]_vars

\* C21 witness: two envelopes for device a were handled one after the other,
\* and the handler of the second raised KeyError into the transport's thread.
DispatchBlocksUntilHandledWitness ==
    /\ bus.pc = "idle"
    /\ bus.applied = 2
    /\ bus.missed = 0
    /\ bus.raised = "KeyError"
    /\ fleet["a"].fcu_state # ListedDevice.fcu_state

\* C22: the registry is written only by get_devices while it holds the
\* lock, and a dispatch with source id d changes device d only: the state
\* object, telemetry and energy reading of every other device, the
\* registry, the token and the transport handles stay as they are. The
\* steps of a dispatch are the steps that change the transport's thread.
DispatchChangesOneDevice ==
    [][/\ devices' # devices =>
            \E c \in Callers : ListingReturn(c) /\ lockOwner = c /\ lockOwner' = c
       /\ bus' # bus =>
            /\ \A d \in Devices :
                  fleet'[d] # fleet[d] =>
                      (bus.scheduled # <<>> /\ d = Head(bus.scheduled).source)
            /\ UNCHANGED <<devices, sas_token, http_api, amqp_api>>
            /\ UNCHANGED energyVars]_vars

\* C22 witness: with both devices in the registry, a dispatch for device a
\* has ended and changed a, and b is as get_devices constructed it.
DispatchChangesOneDeviceWitness ==
    /\ devices = Devices
    /\ bus.pc = "idle"
    /\ bus.applied = 1
    /\ fleet["a"] # ListedDevice
    /\ fleet["b"] = ListedDevice

-----------------------------------------------------------------------------
(* Claims about the tasks, the population of the registry and the results *)
(* of shutdown and connect                                                *)

\* No call is under way and no connect of a device is in flight.
Quiet ==
    /\ \A c \in Callers : pc[c] = "idle"
    /\ \A d \in Devices : devConnect[d] # "loading"

\* C24: whenever the manager is connected and its registry is not empty,
\* both periodic tasks of the manager and the reload task of every device
\* in the registry are running, after any sequence of calls.
TasksRunWhileConnected ==
    (Quiet /\ http_api = "connected" /\ amqp_api = "connected" /\ devices # {}) =>
        \A t \in ManagerTasks \cup devices : task[t] \in Running

\* C25: a get_devices that fails while it populates the registry (the
\* listing, a device's connect or the first energy fetch fails) leaves the
\* registry empty.
FailedPopulationEmptiesRegistry ==
    [][\A c \in Callers :
          ((ListingReturn(c) \/ GatherConnectsReturn(c) \/ EnergyReturn(c))
               /\ pc'[c] = "idle" /\ ret'[c] = "get_devices:error")
              => devices' = {}]_vars

\* C26: shutdown raises if and only if a sub-cleanup ended with an error
\* that is no cancellation: the tasks and device shutdowns that end
\* cancelled are no failures, so a shutdown whose transports close cleanly
\* returns normally.
ShutdownRaisesOnlyErrors ==
    [][\A c \in Callers :
          ShutdownReturns(c) =>
              LET outcomes == {lastShutdown'.results[i].outcome :
                                  i \in 1..Len(lastShutdown'.results)}
                  raises   == ret'[c] \in {"shutdown:raised", "connect:shutdown_raised"}
              IN  /\ raises <=> "failed" \in outcomes
                  /\ outcomes \subseteq {"ok", "cancelled"} =>
                        /\ lastShutdown'.raised = <<>>
                        /\ ret'[c] \in {"shutdown:ok", "connect:error"}]_vars

\* C26 witness: a second shutdown in a row, which finds no transport and
\* the reload tasks already cancelled, returned normally.
ShutdownRaisesOnlyErrorsWitness ==
    /\ lastShutdown.n = 2
    /\ lastShutdown.results # <<>>
    /\ Names(lastShutdown.results) \subseteq Devices
    /\ \A i \in 1..Len(lastShutdown.results) : lastShutdown.results[i].outcome = "cancelled"
    /\ pc[lastShutdown.by] = "idle"
    /\ ret[lastShutdown.by] = "shutdown:ok"

\* C27: a connect call returns the token only when the message-bus transport
\* has connected and the manager is still connected: never from transports
\* that a failed connect of another caller left half-built and is about to
\* shut down.
ConnectReturnsConnected ==
    [][\A c \in Callers :
          ((ConnectStart(c) \/ ConnectLocked(c) \/ HttpConnectReturn(c)
                \/ RegisterReturn(c) \/ AmqpConnectReturn(c))
               /\ pc'[c] = "idle" /\ ret'[c] = "connect:ok")
              => /\ http_api' = "connected"
                 /\ amqp_api' = "connected"
                 /\ \A o \in Callers : ~failing'[o]]_vars

-----------------------------------------------------------------------------
Init == InitCodec

Next == NextCodec

Spec == Init /\ [][Next]_vars

====
